---- MODULE Spec2Model ----
(***************************************************************************)
(* Model of the DSL route health checker: the HTTP-triggered cloud         *)
(* function monitorDSLRoutes (with storeUnhealthyRoutes and                *)
(* sendSlackAlert) and the direct-execution script testTelerivetRoutes.    *)
(*                                                                         *)
(* JavaScript values are encoded as follows.                               *)
(*   - string-valued fields (id, name, phone_number, country,              *)
(*     app_version) are TLA+ strings; "undefined" and "null" stand for     *)
(*     the JS values undefined and null, "" is the empty string;           *)
(*   - number-valued fields (battery, last_active_time) are records        *)
(*     [t, v]: t is "number" (v its value), "nan" (the number NaN),        *)
(*     "undefined", "null", "string" (a non-empty string that is not a     *)
(*     number) or "numstring" (a string that reads as the number v);       *)
(*   - charging and the management flag vars.dsl_managed are one of        *)
(*     "true", "false" (the booleans), "undefined", "string" (the text     *)
(*     "true", which is not the boolean).                                  *)
(* Each action is the code that runs between two awaits of one invocation. *)
(***************************************************************************)
EXTENDS Integers, Sequences, FiniteSets, TLC

\* ------------------------------------------------------------ bounds
MaxRoutes == 3          \* longest device list the gateway returns
MaxInvocations == 2     \* invocations that may overlap
MaxLoad == 4            \* length of a device list times the square of the
                        \* number of invocations
PoolSize == 2           \* clients of the pg pool

\* ------------------------------------------------- program constants
CRITICAL_BATTERY_THRESHOLD == 20
WARNING_BATTERY_THRESHOLD == 30
MsPerSecond == 1000
MsPerMinute == 60000

Procs == 1..MaxInvocations
Clients == 1..PoolSize

VARIABLES
    gateway,   \* the response the upstream API gives to a fetch that ends now
    clock,     \* what Date.now() returns now, milliseconds
    env,       \* process environment: [slackChannel : BOOLEAN]
    arrivals,  \* number of invocations that arrive
    run,       \* run[p]: the state of invocation p
    dbLog,     \* rows of unhealthy_routes_log, in insertion order
    idle,      \* clients of the pool that are not checked out
    uuids      \* number of crypto.randomUUID() calls made so far

vars == <<gateway, clock, env, arrivals, run, dbLog, idle, uuids>>

\* ------------------------------------------------------ JS helpers
Undefined == [t |-> "undefined", v |-> 0]
Num(n) == [t |-> "number", v |-> n]
NaN == [t |-> "nan", v |-> 0]
NullNum == [t |-> "null", v |-> 0]
NonNumeric == [t |-> "string", v |-> 0]
NumericString(n) == [t |-> "numstring", v |-> n]

\* typeof x === "number"
TypeofNumber(x) == x.t \in {"number", "nan"}
\* x < k for a JS value x and a number k (false for NaN)
NumLess(x, k) == x.t = "number" /\ x.v < k
\* !x for a number-typed field: undefined, null, 0 and NaN are falsy, a
\* non-empty string is not
FalsyNum(x) == x.t \in {"undefined", "null", "nan"} \/ (x.t = "number" /\ x.v = 0)
\* !s for a string-typed field
FalsyStr(s) == s \in {"undefined", "null", ""}
\* s ?? alt takes alt only for null and undefined
Nullish(s) == s \in {"undefined", "null"}
\* x || null
OrNull(s) == IF FalsyStr(s) THEN "null" ELSE s

\* x * 1000 is a number (not NaN): x is a number or a numeric string
IsNumeric(x) == x.t \in {"number", "numstring"}

\* bits that follow the leading one in the significand of a double
SignificandBits == 52

\* floor(log2(a / b)) for positive integers a and b
RECURSIVE Log2Floor(_, _)
Log2Floor(a, b) ==
    IF a < b THEN Log2Floor(2 * a, b) - 1
    ELSE IF a >= 2 * b THEN Log2Floor(a, 2 * b) + 1
    ELSE 0

\* (x * 2^e) modulo m
RECURSIVE ScaledRemainder(_, _, _)
ScaledRemainder(x, e, m) ==
    IF e = 0 THEN x % m ELSE ScaledRemainder((2 * x) % m, e - 1, m)

\* a / b as a double is smaller than the quotient a / b: the quotient is
\* scaled to a 53-bit integer and rounded to the nearest one; it is rounded
\* down when the remainder is under half the divisor (a remainder of exactly
\* half does not occur for the divisor 60000, which has an odd factor)
DivisionRoundsDown(a, b) ==
    LET rem == ScaledRemainder(a % b, SignificandBits - Log2Floor(a, b), b)
    IN rem # 0 /\ 2 * rem < b

\* minutesAgo.toFixed(1), as a number of tenths; ms is now - lastActiveMs > 0.
\* toFixed takes the tenth nearest to the double minutesAgo = ms / 60000 and
\* the larger one on a tie; when ms / 60000 lies midway between two tenths
\* the double decides: it is that midpoint or lies just beside it
ToFixed1(ms) ==
    LET tenth == MsPerMinute \div 10
        whole == ms \div tenth
        rest == ms % tenth
    IN IF 2 * rest < tenth THEN whole
       ELSE IF 2 * rest > tenth THEN whole + 1
       ELSE IF DivisionRoundsDown(ms, MsPerMinute) THEN whole
       ELSE whole + 1

\* ------------------------------------------------------ Classifier
Issue(text, arg) == [text |-> text, arg |-> arg]

\* StalenessIssues with `minutesAgo >= 1` in place of `minutesAgo > 1`
StalenessIssuesAtLeast(r, now) ==
    IF FalsyNum(r.last_active_time)
    THEN <<Issue("Never reported active", 0)>>
    ELSE IF IsNumeric(r.last_active_time)
            /\ now - r.last_active_time.v * MsPerSecond >= MsPerMinute
         THEN <<Issue("Last active", ToFixed1(now - r.last_active_time.v * MsPerSecond))>>
         ELSE <<>>

\* part_000 lines 158-168, index.js lines 82-91
StalenessIssues(r, now) ==
    IF FalsyNum(r.last_active_time)
    THEN <<Issue("Never reported active", 0)>>
    ELSE IF IsNumeric(r.last_active_time)
            /\ now - r.last_active_time.v * MsPerSecond > MsPerMinute
         THEN <<Issue("Last active", ToFixed1(now - r.last_active_time.v * MsPerSecond))>>
         ELSE <<>>

\* BatteryIssues with `r.charging !== true` in place of `r.charging === false`
BatteryIssuesNotTrue(r) ==
    IF TypeofNumber(r.battery)
    THEN IF NumLess(r.battery, CRITICAL_BATTERY_THRESHOLD)
         THEN <<Issue("Critical battery level", r.battery.v)>>
         ELSE IF NumLess(r.battery, WARNING_BATTERY_THRESHOLD) /\ r.charging # "true"
              THEN <<Issue("Battery low and not charging", r.battery.v)>>
              ELSE <<>>
    ELSE <<>>

\* BatteryIssues with two independent `if`s in place of the else-if
BatteryIssuesNoElse(r) ==
    IF TypeofNumber(r.battery)
    THEN (IF NumLess(r.battery, CRITICAL_BATTERY_THRESHOLD)
          THEN <<Issue("Critical battery level", r.battery.v)>> ELSE <<>>)
         \o (IF NumLess(r.battery, WARNING_BATTERY_THRESHOLD) /\ r.charging = "false"
             THEN <<Issue("Battery low and not charging", r.battery.v)>> ELSE <<>>)
    ELSE <<>>

\* part_000 lines 171-177, index.js lines 94-100
BatteryIssues(r) ==
    IF TypeofNumber(r.battery)
    THEN IF NumLess(r.battery, CRITICAL_BATTERY_THRESHOLD)
         THEN <<Issue("Critical battery level", r.battery.v)>>
         ELSE IF NumLess(r.battery, WARNING_BATTERY_THRESHOLD) /\ r.charging = "false"
              THEN <<Issue("Battery low and not charging", r.battery.v)>>
              ELSE <<>>
    ELSE <<>>

Classify(r, now) == StalenessIssues(r, now) \o BatteryIssues(r)

\* the object pushed to unhealthyRoutes
UnhealthyRecord(r, issues) ==
    [id |-> r.id, name |-> r.name, phone_number |-> r.phone_number,
     country |-> r.country, app_version |-> r.app_version,
     battery |-> r.battery, charging |-> r.charging,
     last_active_time |-> r.last_active_time, issues |-> issues]

\* FindUnhealthy without the test `issues.length > 0`
RECURSIVE FindUnhealthyAll(_, _)
FindUnhealthyAll(routes, now) ==
    IF routes = <<>> THEN <<>>
    ELSE <<UnhealthyRecord(Head(routes), Classify(Head(routes), now))>>
         \o FindUnhealthyAll(Tail(routes), now)

\* part_000 lines 149-193, index.js lines 75-115
RECURSIVE FindUnhealthy(_, _)
FindUnhealthy(routes, now) ==
    IF routes = <<>> THEN <<>>
    ELSE LET r == Head(routes)
             issues == Classify(r, now)
             rest == FindUnhealthy(Tail(routes), now)
         IN IF Len(issues) > 0 THEN <<UnhealthyRecord(r, issues)>> \o rest ELSE rest

\* IsManaged with a truthiness test in place of `=== true`
IsManagedTruthy(r) == r.managed \in {"true", "string"}

\* allRoutes.filter(r => r.vars?.dsl_managed === true)
IsManaged(r) == r.managed = "true"
FilterManaged(allRoutes) == SelectSeq(allRoutes, IsManaged)

\* Array.isArray(response.data.data) ? response.data.data : []
\* (evaluated only when response.data is an object or a string)
RoutesOf(resp) == IF resp.field = "array" THEN resp.data ELSE <<>>
\* response.data.data throws a TypeError when response.data is null/undefined
BodyThrows(resp) == resp.body \in {"null", "undefined"}

\* ------------------------------------------------------- Persister
NullableNum(x) == IF TypeofNumber(x) THEN x ELSE NullNum
NullableBool(c) == IF c \in {"true", "false"} THEN c ELSE "null"
\* JSON.stringify(issues): the text of the issue list
JsonStringify(issues) == [json |-> issues]

\* const safeRouteId = r.id ?? `unknown-${crypto.randomUUID()}`
SafeRouteId(id, token) ==
    IF Nullish(id) THEN [text |-> "unknown-", uuid |-> token]
    ELSE [text |-> id, uuid |-> 0]

\* the values array of one INSERT
Row(r, runId, token) ==
    [run_id |-> runId,
     route_id |-> SafeRouteId(r.id, token),
     route_name |-> OrNull(r.name),
     phone_number |-> OrNull(r.phone_number),
     country |-> OrNull(r.country),
     app_version |-> OrNull(r.app_version),
     battery |-> NullableNum(r.battery),
     charging |-> NullableBool(r.charging),
     last_active_time |-> NullableNum(r.last_active_time),
     issues |-> JsonStringify(r.issues)]

\* -------------------------------------------------------- Notifier
\* routeOwners.json: display name -> Slack member id
RouteOwners == [n \in {"Router-A"} |-> "U123"]
\* the properties routeOwners inherits from Object.prototype;
\* routeOwners[name] finds them too
InheritedKeys ==
    {"constructor", "toString", "toLocaleString", "valueOf", "hasOwnProperty",
     "isPrototypeOf", "propertyIsEnumerable", "__proto__",
     "__defineGetter__", "__defineSetter__", "__lookupGetter__", "__lookupSetter__"}
\* routeOwners[r.name], as the template of line 102 prints it: an inherited
\* name yields a function, "__proto__" yields the prototype object
OwnerLookup(name) ==
    IF name \in DOMAIN RouteOwners THEN RouteOwners[name]
    ELSE IF name = "__proto__" THEN "[object Object]"
    ELSE IF name \in InheritedKeys THEN "[function]"
    ELSE "undefined"

\* one line of the Slack message of monitorDSLRoutes
AlertLine(r) ==
    [mention |-> IF FalsyStr(OwnerLookup(r.name)) THEN "" ELSE OwnerLookup(r.name),
     label |-> IF FalsyStr(r.name) THEN r.id ELSE r.name,
     phone |-> IF FalsyStr(r.phone_number) THEN "unknown" ELSE r.phone_number,
     issues |-> r.issues]

\* one line of the Slack message of the direct-execution script
DirectLine(r) ==
    [mention |-> "", label |-> r.name, phone |-> r.phone_number, issues |-> r.issues]

AlertMessage(unhealthy, runId) ==
    [run_id |-> runId, lines |-> [i \in 1..Len(unhealthy) |-> AlertLine(unhealthy[i])]]
DirectMessage(unhealthy) ==
    [run_id |-> 0, lines |-> [i \in 1..Len(unhealthy) |-> DirectLine(unhealthy[i])]]

\* ------------------------------------------------- run bookkeeping
\* no response received yet
NoResponse == [body |-> "none", field |-> "missing", data |-> <<>>]

InitRun ==
    [pc |-> "idle", kind |-> "none", runId |-> 0, fetch |-> "none",
     total |-> 0, routes |-> <<>>, unhealthy |-> <<>>,
     store |-> "none", connects |-> 0, acquired |-> 0, releases |-> 0,
     client |-> 0, idx |-> 0, attempts |-> <<>>, outcomes |-> <<>>,
     notified |-> <<>>, sends |-> <<>>, delivered |-> 0,
     responses |-> <<>>, errors |-> <<>>, exit |-> 0,
     response |-> NoResponse, now |-> 0]

\* logError(context, err)
LogError(r, context) == [r EXCEPT !.errors = Append(@, context)]

\* res.status(code).json(body)
Respond(r, code, keys, body) ==
    [r EXCEPT !.pc = "done",
              !.responses = Append(@, [status |-> code, keys |-> keys, body |-> body])]

NoBody == [run_id |-> 0, total_routes |-> 0, unhealthy_count |-> 0, unhealthy_routes |-> <<>>]

\* RespondUpstreamFailure answering with the generic status
RespondUpstreamFailureAs500(r) == Respond(r, 500, {"error"}, NoBody)

\* part_000 line 140
RespondUpstreamFailure(r) == Respond(r, 502, {"error"}, NoBody)
\* part_000 line 233
RespondUnexpected(r) == Respond(r, 500, {"error"}, NoBody)
\* part_000 lines 199-203
RespondHealthy(r) ==
    Respond(r, 200, {"status", "total_routes", "unhealthy_count"},
            [NoBody EXCEPT !.total_routes = r.total])
\* part_000 lines 223-229
RespondUnhealthy(r) ==
    Respond(r, 200,
            {"status", "run_id", "total_routes", "unhealthy_count", "unhealthy_routes"},
            [run_id |-> r.runId, total_routes |-> r.total,
             unhealthy_count |-> Len(r.unhealthy), unhealthy_routes |-> r.unhealthy])

\* BeginNotify without the configuration check of lines 93-96
BeginNotifyNoCheck(r) ==
    [r EXCEPT !.pc = "posting",
              !.notified = Append(@, r.unhealthy),
              !.sends = Append(@, AlertMessage(r.unhealthy, r.runId))]

\* BeginNotify posting one message for each record
BeginNotifyPerRecord(r) ==
    LET called == [r EXCEPT !.notified = Append(@, r.unhealthy)]
    IN IF ~env.slackChannel
       THEN [called EXCEPT !.pc = "notified"]
       ELSE [called EXCEPT !.pc = "posting",
                           !.sends = [i \in 1..Len(r.unhealthy) |->
                                         AlertMessage(<<r.unhealthy[i]>>, r.runId)]]

\* part_000 lines 92-113: sendSlackAlert of monitorDSLRoutes up to its await;
\* without a channel it returns at once and its caller waits to be resumed
BeginNotify(r) ==
    LET called == [r EXCEPT !.notified = Append(@, r.unhealthy)]
    IN IF ~env.slackChannel
       THEN [called EXCEPT !.pc = "notified"]
       ELSE [called EXCEPT !.pc = "posting",
                           !.sends = Append(@, AlertMessage(r.unhealthy, r.runId))]

\* sendSlackAlert of the direct-execution script up to its await
BeginNotifyDirect(r) ==
    [r EXCEPT !.pc = "posting",
              !.notified = Append(@, r.unhealthy),
              !.sends = Append(@, DirectMessage(r.unhealthy))]

\* sendSlackAlert returns: monitorDSLRoutes waits to be resumed from the
\* await of line 218; the script has nothing left to do (index.js line 129)
EndNotify(r) ==
    IF r.kind = "http" THEN [r EXCEPT !.pc = "notified"] ELSE [r EXCEPT !.pc = "done"]

\* ---------------------------------------------------------- inputs
Device(id, name, phone, battery, charging, last, managed) ==
    [id |-> id, name |-> name, phone_number |-> phone, country |-> "LK",
     app_version |-> "undefined", battery |-> battery, charging |-> charging,
     last_active_time |-> last, managed |-> managed]

\* the reading of the clock, in milliseconds
Now0 == 1000 * MsPerSecond

\* the devices the gateway reports in the pipeline runs
Devices ==
    { Device("r1", "Router-A", "+9471", Num(80), "true", Num(1000), "true"),
      Device("r2", "Router-A", "+9472", Num(15), "true", Num(1000), "true"),
      Device("undefined", "undefined", "undefined", Num(25), "false", Undefined, "true"),
      Device("null", "Router-Z", "", NonNumeric, "undefined", Num(880), "true"),
      Device("r5", "Router-Z", "+9475", Num(15), "false", Num(0), "false") }

RECURSIVE SeqsUpTo(_, _)
SeqsUpTo(S, n) ==
    IF n = 0 THEN {<<>>}
    ELSE LET shorter == SeqsUpTo(S, n - 1)
         IN shorter \cup {Append(q, x) : q \in {t \in shorter : Len(t) = n - 1}, x \in S}

\* response.data of a fetch that succeeded
Responses ==
    {[body |-> "object", field |-> "array", data |-> d] : d \in SeqsUpTo(Devices, MaxRoutes)}
    \cup {[body |-> "object", field |-> f, data |-> <<>>] : f \in {"missing", "nonarray"}}
    \cup {[body |-> b, field |-> "missing", data |-> <<>>] : b \in {"string", "null"}}

\* a later reading of the clock
LaterReadings == {Now0 + 2 * MsPerMinute}

\* the readings of the clock and the field values of the classifier runs
\* (a JSON body cannot carry NaN, so no field is NaN)
NowValues == {Now0, Now0 + 1}
BatteryValues ==
    {Undefined, NullNum, NonNumeric, NumericString(15), Num(0), Num(19), Num(20), Num(29),
     Num(30), Num(80)}
ChargingValues == {"true", "false", "undefined", "null", "string"}
LastActiveValues ==
    {Undefined, NullNum, NonNumeric, NumericString(880), Num(0), Num(700), Num(880),
     Num(931), Num(937), Num(939), Num(940), Num(1000), Num(1060)}
ManagedValues == {"true", "false", "undefined", "string"}
ClassifierDevices ==
    {Device("r1", "Router-A", "+9471", b, c, t, m) :
        b \in BatteryValues, c \in ChargingValues, t \in LastActiveValues, m \in ManagedValues}

\* --------------------------------------------------------- actions
\* the answers explored with a given number of invocations: the more
\* invocations overlap, the shorter the device lists
WithinLoad(resp) == Len(resp.data) * arrivals * arrivals <= MaxLoad

Init ==
    /\ gateway \in Responses
    /\ clock = Now0
    /\ env \in [slackChannel : BOOLEAN]
    /\ arrivals \in 1..MaxInvocations
    /\ WithinLoad(gateway)
    /\ run = [p \in Procs |-> InitRun]
    /\ dbLog = <<>>
    /\ idle = Clients
    /\ uuids = 0

Set(p, r) == run' = [run EXCEPT ![p] = r]

\* invocations are numbered in the order they arrive
Arrives(p) ==
    /\ p <= arrivals
    /\ run[p].pc = "idle"
    /\ IF p = 1 THEN TRUE ELSE run[p - 1].pc # "idle"

\* Invoke with a run id drawn once when the module loads, not per request
InvokeSharedRunId(p) ==
    /\ Arrives(p)
    /\ uuids' = uuids + 1
    /\ Set(p, [run[p] EXCEPT !.pc = "fetching", !.kind = "http", !.runId = 1])
    /\ UNCHANGED <<gateway, clock, env, arrivals, dbLog, idle>>

\* part_000 lines 121-133: the request arrives, the run id is drawn, the
\* fetch is issued
Invoke(p) ==
    /\ Arrives(p)
    /\ uuids' = uuids + 1
    /\ Set(p, [run[p] EXCEPT !.pc = "fetching", !.kind = "http", !.runId = uuids + 1])
    /\ UNCHANGED <<gateway, clock, env, arrivals, dbLog, idle>>

\* index.js lines 49-66: without an API key or a project id the script
\* prints a message and ends the process with exit code 1; else it issues
\* the fetch
StartDirect(r, apiKey, projectId) ==
    IF ~apiKey \/ ~projectId
    THEN [r EXCEPT !.pc = "done", !.kind = "direct", !.exit = 1]
    ELSE [r EXCEPT !.pc = "fetching", !.kind = "direct"]

\* index.js lines 47-66, 136: the script is started; apiKey and projectId
\* say whether its process has TELERIVET_API_KEY and TELERIVET_PROJECT_ID
InvokeDirect(p) ==
    /\ Arrives(p)
    /\ \E apiKey, projectId \in BOOLEAN : Set(p, StartDirect(run[p], apiKey, projectId))
    /\ UNCHANGED <<gateway, clock, env, arrivals, dbLog, idle, uuids>>

\* FetchFail without the `return` of its catch block: the run goes on to
\* the Notifier
FetchFailNoReturn(p) ==
    /\ run[p].pc = "fetching"
    /\ LET r == LogError([run[p] EXCEPT !.fetch = "failed"], "Telerivet API Error")
       IN Set(p, IF r.kind = "http" THEN BeginNotify(r) ELSE BeginNotifyDirect(r))
    /\ UNCHANGED <<gateway, clock, env, arrivals, dbLog, idle, uuids>>

\* part_000 lines 137-141 and index.js lines 67-70: axios.get rejects
FetchFail(p) ==
    /\ run[p].pc = "fetching"
    /\ LET r == LogError([run[p] EXCEPT !.fetch = "failed"], "Telerivet API Error")
       IN Set(p, IF r.kind = "http" THEN RespondUpstreamFailure(r)
                 ELSE [r EXCEPT !.pc = "done"])
    /\ UNCHANGED <<gateway, clock, env, arrivals, dbLog, idle, uuids>>

\* storeUnhealthyRoutes returns or throws: monitorDSLRoutes waits to be resumed
\* from the await of line 211; a direct caller of storeUnhealthyRoutes is done
AfterStore(r) ==
    IF r.kind = "store" THEN [r EXCEPT !.pc = "done"] ELSE [r EXCEPT !.pc = "stored"]

\* BeginStore when the call of line 211 is not awaited: the Notifier starts
\* while the Persister waits for its connection
BeginStoreNotAwaited(r) ==
    BeginNotify([r EXCEPT !.store = "running", !.connects = @ + 1])

\* BeginStore without the guard of line 48
BeginStoreNoGuard(r) ==
    [r EXCEPT !.pc = "connecting", !.store = "running", !.connects = @ + 1]

\* storeUnhealthyRoutes up to `await pool.connect()`; an empty batch returns
BeginStore(r) ==
    IF Len(r.unhealthy) = 0
    THEN AfterStore([r EXCEPT !.store = "returned"])
    ELSE [r EXCEPT !.pc = "connecting", !.store = "running", !.connects = @ + 1]

\* part_000 lines 143-211: the fetch resolves; filter, classify, and either
\* answer or call the Persister
FetchOk(p) ==
    /\ run[p].pc = "fetching"
    /\ run[p].kind = "http"
    /\ LET r0 == [run[p] EXCEPT !.fetch = "ok", !.response = gateway]
           routes == FilterManaged(RoutesOf(gateway))
           r1 == [r0 EXCEPT !.routes = routes, !.total = Len(routes), !.now = clock,
                            !.unhealthy = FindUnhealthy(routes, clock)]
       IN Set(p, IF BodyThrows(gateway)
                 THEN RespondUnexpected(LogError(r0, "Unexpected Error"))
                 ELSE IF Len(r1.unhealthy) = 0 THEN RespondHealthy(r1)
                 ELSE BeginStore(r1))
    /\ UNCHANGED <<gateway, clock, env, arrivals, dbLog, idle, uuids>>

\* index.js lines 72-129: the fetch resolves in the direct-execution script
DirectFetchOk(p) ==
    /\ run[p].pc = "fetching"
    /\ run[p].kind = "direct"
    /\ LET r0 == [run[p] EXCEPT !.fetch = "ok", !.response = gateway]
           routes == RoutesOf(gateway)
           r1 == [r0 EXCEPT !.routes = routes, !.total = Len(routes), !.now = clock,
                            !.unhealthy = FindUnhealthy(routes, clock)]
       IN Set(p, IF BodyThrows(gateway)
                 THEN [LogError(r0, "Unexpected Error") EXCEPT !.pc = "done"]
                 ELSE IF Len(r1.unhealthy) = 0 THEN [r1 EXCEPT !.pc = "done"]
                 ELSE BeginNotifyDirect(r1))
    /\ UNCHANGED <<gateway, clock, env, arrivals, dbLog, idle, uuids>>

\* IssueInsert building the placeholder from the run id in place of a fresh
\* crypto.randomUUID()
IssueInsertRunToken(r, i, token) ==
    [r EXCEPT !.pc = "inserting", !.idx = i,
              !.attempts = Append(@, Row(r.unhealthy[i], r.runId, r.runId))]

\* part_000 lines 60-78: the values of record i are built and its INSERT issued
IssueInsert(r, i, token) ==
    [r EXCEPT !.pc = "inserting", !.idx = i,
              !.attempts = Append(@, Row(r.unhealthy[i], r.runId, token))]

NeedsToken(r, i) == Nullish(r.unhealthy[i].id)

\* part_000 lines 50-78: pool.connect() resolves with a client
ConnectOk(p) ==
    /\ run[p].pc = "connecting"
    /\ \E c \in idle :
         /\ idle' = idle \ {c}
         /\ Set(p, IssueInsert([run[p] EXCEPT !.client = c, !.acquired = @ + 1],
                               1, uuids + 1))
    /\ uuids' = IF NeedsToken(run[p], 1) THEN uuids + 1 ELSE uuids
    /\ UNCHANGED <<gateway, clock, env, arrivals, dbLog>>

\* part_000 line 50: pool.connect() rejects; storeUnhealthyRoutes is resumed
\* outside its try and throws to its caller
ConnectFail(p) ==
    /\ run[p].pc = "connecting"
    /\ Set(p, AfterStore([run[p] EXCEPT !.store = "threw"]))
    /\ UNCHANGED <<gateway, clock, env, arrivals, dbLog, idle, uuids>>

\* ReleaseAndReturn without client.release()
ReleaseSkipped(r) == AfterStore([r EXCEPT !.store = "returned"])

\* part_000 lines 86-89: the loop is over, the client is released and
\* storeUnhealthyRoutes returns
ReleaseAndReturn(r) ==
    AfterStore([r EXCEPT !.client = 0, !.releases = @ + 1, !.store = "returned"])

\* InsertSettled without the inner try/catch: a failed INSERT ends the loop
\* in the outer handler
InsertSettledAbort(p, ok) ==
    /\ run[p].pc = "inserting"
    /\ LET settled == [run[p] EXCEPT !.outcomes = Append(@, ok)]
           r == IF ok THEN settled ELSE LogError(settled, "DB Insert Error (outer)")
           i == r.idx + 1
           last == r.idx = Len(r.unhealthy) \/ ~ok
       IN /\ dbLog' = IF ok THEN Append(dbLog, r.attempts[r.idx]) ELSE dbLog
          /\ idle' = IF last THEN idle \cup {r.client} ELSE idle
          /\ uuids' = IF ~last /\ NeedsToken(r, i) THEN uuids + 1 ELSE uuids
          /\ Set(p, IF last THEN ReleaseAndReturn(r) ELSE IssueInsert(r, i, uuids + 1))
    /\ UNCHANGED <<gateway, clock, env, arrivals>>

\* part_000 lines 77-88: the INSERT of record idx settles
InsertSettled(p, ok) ==
    /\ run[p].pc = "inserting"
    /\ LET settled == [run[p] EXCEPT !.outcomes = Append(@, ok)]
           r == IF ok THEN settled ELSE LogError(settled, "DB Insert Error (single route)")
           i == r.idx + 1
           last == r.idx = Len(r.unhealthy)
       IN /\ dbLog' = IF ok THEN Append(dbLog, r.attempts[r.idx]) ELSE dbLog
          /\ idle' = IF last THEN idle \cup {r.client} ELSE idle
          /\ uuids' = IF ~last /\ NeedsToken(r, i) THEN uuids + 1 ELSE uuids
          /\ Set(p, IF last THEN ReleaseAndReturn(r) ELSE IssueInsert(r, i, uuids + 1))
    /\ UNCHANGED <<gateway, clock, env, arrivals>>

InsertOk(p) == InsertSettled(p, TRUE)
InsertFail(p) == InsertSettled(p, FALSE)

\* ResumeAfterStore without the try/catch around the Persister call: what
\* the Persister threw reaches the outermost handler
ResumeAfterStoreUncaught(p) ==
    /\ run[p].pc = "stored"
    /\ Set(p, IF run[p].store = "threw"
              THEN RespondUnexpected(LogError(run[p], "Unexpected Error"))
              ELSE BeginNotify(run[p]))
    /\ UNCHANGED <<gateway, clock, env, arrivals, dbLog, idle, uuids>>

\* part_000 lines 211-218: monitorDSLRoutes is resumed after the Persister
\* returned or threw; it logs what was thrown and calls the Notifier
ResumeAfterStore(p) ==
    /\ run[p].pc = "stored"
    /\ Set(p, IF run[p].store = "threw"
              THEN BeginNotify(LogError(run[p], "storeUnhealthyRoutes failed"))
              ELSE BeginNotify(run[p]))
    /\ UNCHANGED <<gateway, clock, env, arrivals, dbLog, idle, uuids>>

\* part_000 lines 110-114 and index.js lines 37-41: postMessage resolves
PostOk(p) ==
    /\ run[p].pc = "posting"
    /\ Set(p, EndNotify([run[p] EXCEPT !.delivered = @ + 1]))
    /\ UNCHANGED <<gateway, clock, env, arrivals, dbLog, idle, uuids>>

\* part_000 lines 115-117 and index.js lines 42-44: postMessage rejects
PostFail(p) ==
    /\ run[p].pc = "posting"
    /\ Set(p, EndNotify(LogError(run[p], "Slack Notification Error")))
    /\ UNCHANGED <<gateway, clock, env, arrivals, dbLog, idle, uuids>>

\* part_000 lines 218-229: monitorDSLRoutes is resumed after sendSlackAlert
\* returned, and answers
ResumeAfterNotify(p) ==
    /\ run[p].pc = "notified"
    /\ Set(p, RespondUnhealthy(run[p]))
    /\ UNCHANGED <<gateway, clock, env, arrivals, dbLog, idle, uuids>>

\* one fetch has ended and some invocation has yet to receive the upstream's
\* answer and read the clock (a change before the first fetch is another
\* initial state, a change after the last one is not seen)
BetweenFetches ==
    /\ \E p \in Procs : run[p].fetch # "none"
    /\ \E p \in Procs : p <= arrivals /\ run[p].pc \in {"idle", "fetching"}

\* part_000 line 133, index.js line 63: every fetch asks the upstream anew;
\* between two fetches its answer changes
UpstreamChanges ==
    /\ BetweenFetches
    /\ \E resp \in Responses :
         /\ resp # gateway
         /\ WithinLoad(resp)
         /\ gateway' = resp
    /\ UNCHANGED <<clock, env, arrivals, run, dbLog, idle, uuids>>

\* part_000 line 150, index.js line 76: every invocation reads Date.now();
\* between two invocations time passes
Tick ==
    /\ BetweenFetches
    /\ \E t \in LaterReadings : t > clock /\ clock' = t
    /\ UNCHANGED <<gateway, env, arrivals, run, dbLog, idle, uuids>>

NextOf(p) ==
        \/ Invoke(p)
        \/ InvokeDirect(p)
        \/ FetchFail(p)
        \/ FetchOk(p)
        \/ DirectFetchOk(p)
        \/ ConnectOk(p)
        \/ ConnectFail(p)
        \/ InsertOk(p)
        \/ InsertFail(p)
        \/ ResumeAfterStore(p)
        \/ PostOk(p)
        \/ PostFail(p)
        \/ ResumeAfterNotify(p)

\* the steps of the invocations
NextInvocation == \E p \in Procs : NextOf(p)

Next ==
    \/ NextInvocation
    \/ UpstreamChanges
    \/ Tick

Spec == Init /\ [][Next]_vars

\* part_000 lines 47-50: storeUnhealthyRoutes(batch, runId) called on its own,
\* with an empty batch or with the unhealthy records of the gateway's devices
CallPersister(p) ==
    /\ Arrives(p)
    /\ \E batch \in {<<>>, FindUnhealthy(RoutesOf(gateway), clock)} :
         Set(p, BeginStore([run[p] EXCEPT !.kind = "store", !.runId = uuids + 1,
                                          !.unhealthy = batch]))
    /\ uuids' = uuids + 1
    /\ UNCHANGED <<gateway, clock, env, arrivals, dbLog, idle>>

NextPersister ==
    \/ Next
    \/ \E p \in Procs : CallPersister(p)

\* the pipeline runs together with direct calls of the Persister
SpecPersister == Init /\ [][NextPersister]_vars

\* one invocation over a gateway that reports a single device, the device
\* and the clock drawn from every combination of field values
InitClassify ==
    /\ gateway \in {[body |-> "object", field |-> "array", data |-> <<d>>] :
                        d \in ClassifierDevices}
    /\ clock \in NowValues
    /\ env \in [slackChannel : BOOLEAN]
    /\ arrivals = 1
    /\ run = [p \in Procs |-> InitRun]
    /\ dbLog = <<>>
    /\ idle = Clients
    /\ uuids = 0

SpecClassify == InitClassify /\ [][NextInvocation]_vars

\* the display names, identifiers and phone numbers of the notifier runs
NameValues ==
    {"Router-A", "Router-Z", "undefined", "null", "", "toString", "constructor",
     "isPrototypeOf", "__proto__"}
IdValues == {"r1", "undefined"}
PhoneValues == {"+9471", "undefined"}

\* one invocation over a gateway that reports a single managed device at 15%,
\* its display name, identifier and phone number drawn from every combination
InitNotify ==
    /\ gateway \in {[body |-> "object", field |-> "array",
                      data |-> <<Device(id, name, phone, Num(15), "true", Num(1000), "true")>>] :
                        id \in IdValues, name \in NameValues, phone \in PhoneValues}
    /\ clock = Now0
    /\ env \in [slackChannel : BOOLEAN]
    /\ arrivals = 1
    /\ run = [p \in Procs |-> InitRun]
    /\ dbLog = <<>>
    /\ idle = Clients
    /\ uuids = 0

SpecNotify == InitNotify /\ [][NextInvocation]_vars

\* ====================================================== properties
Http(p) == run[p].kind = "http"
Direct(p) == run[p].kind = "direct"
Done(p) == run[p].pc = "done"
FetchFailed(p) == run[p].fetch = "failed"
FetchSucceeded(p) == run[p].fetch = "ok"
HasUnhealthy(p) == Len(run[p].unhealthy) > 0
\* the Persister call of run p has ended (returned or thrown)
StoreEnded(p) == run[p].store \in {"returned", "threw"}
Status(p) == run[p].responses[1].status
Logged(p, context) == \E i \in 1..Len(run[p].errors) : run[p].errors[i] = context
\* the rows of the log written by run id
RowsOf(id) == SelectSeq(dbLog, LAMBDA row : row.run_id = id)
\* the attempted rows of run p whose INSERT succeeded, in order
RECURSIVE Accepted(_, _)
Accepted(rows, outcomes) ==
    IF rows = <<>> \/ outcomes = <<>> THEN <<>>
    ELSE (IF Head(outcomes) THEN <<Head(rows)>> ELSE <<>>)
         \o Accepted(Tail(rows), Tail(outcomes))
FailedInserts(p) == Cardinality({i \in 1..Len(run[p].outcomes) : ~run[p].outcomes[i]})

\* C1: a run whose upstream fetch failed has terminated without acquiring a
\* connection, attempting an insert, calling the Notifier or sending a
\* message, under the HTTP trigger and under direct execution alike.
C1_FetchFailureShortCircuits ==
    \A p \in Procs :
        FetchFailed(p) =>
            /\ Done(p)
            /\ run[p].connects = 0 /\ run[p].acquired = 0
            /\ run[p].attempts = <<>>
            /\ run[p].notified = <<>> /\ run[p].sends = <<>>
            /\ run[p].store = "none"
            /\ Http(p) => RowsOf(run[p].runId) = <<>>

C1_Witness ==
    \E p, q \in Procs :
        /\ Http(p) /\ FetchFailed(p) /\ Done(p)
        /\ Direct(q) /\ FetchFailed(q) /\ Done(q)

\* C2: an HTTP run that found unhealthy records and has terminated called the
\* Persister once and the Notifier once, with the whole unhealthy list,
\* whatever failed in the persist stage (the connection acquisition or any
\* of the inserts); it answered 200, and the rows it left in the log are
\* exactly its successful inserts, also when the delivery failed.
C2_PersistAndNotifyBothAttempted ==
    \A p \in Procs :
        (Http(p) /\ FetchSucceeded(p) /\ HasUnhealthy(p)) =>
            /\ run[p].pc \in {"posting", "notified", "done"} =>
                  /\ StoreEnded(p)
                  /\ run[p].connects = 1
                  /\ run[p].notified = <<run[p].unhealthy>>
                  /\ RowsOf(run[p].runId) = Accepted(run[p].attempts, run[p].outcomes)
            /\ Done(p) =>
                  /\ Len(run[p].responses) = 1
                  /\ Status(p) = 200
                  /\ run[p].responses[1].body.unhealthy_routes = run[p].unhealthy

C2_Witness ==
    \E p \in Procs :
        /\ Http(p) /\ Done(p) /\ Len(run[p].unhealthy) >= 2
        /\ Logged(p, "DB Insert Error (single route)")
        /\ Logged(p, "Slack Notification Error")
        /\ RowsOf(run[p].runId) # <<>>
        /\ Status(p) = 200

\* C3: no call of storeUnhealthyRoutes ends by throwing to its caller.
C3_PersisterNeverThrows ==
    \A p \in Procs : run[p].store # "threw"

\* C4: a Persister call with a non-empty batch asks the pool for a connection
\* once, holds at most one client, never releases more than it acquired, and
\* has released what it acquired when it ends, whichever inserts failed; a
\* terminated run holds no client, and every client is either idle or held
\* by exactly one run.
C4_OneConnectionAlwaysReleased ==
    /\ \A p \in Procs :
          /\ run[p].connects <= 1
          /\ run[p].acquired <= run[p].connects
          /\ run[p].releases <= run[p].acquired
          /\ run[p].client # 0 <=> run[p].acquired = run[p].releases + 1
          /\ run[p].client # 0 => run[p].client \notin idle
          /\ run[p].attempts # <<>> => run[p].acquired = 1
          /\ (StoreEnded(p) /\ HasUnhealthy(p)) =>
                /\ run[p].connects = 1
                /\ run[p].releases = run[p].acquired
                /\ run[p].store = "returned" =>
                      run[p].acquired = 1 /\ Len(run[p].attempts) = Len(run[p].unhealthy)
          /\ Done(p) => run[p].client = 0
    /\ idle \cup {run[p].client : p \in {q \in Procs : run[q].client # 0}} = Clients
    /\ \A p, q \in Procs : (p # q /\ run[p].client # 0) => run[p].client # run[q].client

C4_Witness ==
    \E p \in Procs :
        /\ Done(p) /\ Len(run[p].unhealthy) >= 2
        /\ run[p].acquired = 1 /\ run[p].releases = 1
        /\ run[p].outcomes[1] /\ ~run[p].outcomes[2]
        /\ idle = Clients

\* C5: an insert is attempted for every record of the batch, in input order,
\* whatever earlier inserts did; the rows appended are those whose insert
\* succeeded; and a terminated run with exactly one failed insert out of N
\* has appended N-1 rows, has called the Notifier and has answered 200.
C5_InsertFailuresIsolated ==
    \A p \in Procs :
        /\ run[p].pc = "inserting" =>
              Len(run[p].attempts) = run[p].idx /\ Len(run[p].outcomes) = run[p].idx - 1
        /\ \A i \in 1..Len(run[p].attempts) :
              /\ run[p].attempts[i].run_id = run[p].runId
              /\ run[p].attempts[i].issues = [json |-> run[p].unhealthy[i].issues]
              /\ run[p].attempts[i].phone_number =
                    (IF run[p].unhealthy[i].phone_number \in {"undefined", "null", ""}
                     THEN "null" ELSE run[p].unhealthy[i].phone_number)
              /\ run[p].attempts[i].battery.v = run[p].unhealthy[i].battery.v
        /\ run[p].store = "returned" =>
              /\ Len(run[p].attempts) = Len(run[p].unhealthy)
              /\ Len(run[p].outcomes) = Len(run[p].unhealthy)
              /\ RowsOf(run[p].runId) = Accepted(run[p].attempts, run[p].outcomes)
        /\ (Done(p) /\ FailedInserts(p) = 1) =>
              /\ Len(RowsOf(run[p].runId)) = Len(run[p].unhealthy) - 1
              /\ run[p].notified = <<run[p].unhealthy>>
              /\ Status(p) = 200

C5_Witness ==
    \E p \in Procs :
        /\ Done(p) /\ Len(run[p].unhealthy) = 3
        /\ run[p].outcomes = <<TRUE, FALSE, TRUE>>
        /\ Len(RowsOf(run[p].runId)) = 2

\* C6: an HTTP invocation has answered exactly once when it has terminated and
\* not at all before; the status is 502 exactly when the fetch failed, 500
\* exactly when an exception escaped the stage-level handling (the only one
\* the code can raise there: the response body is null), and 200 otherwise,
\* persistence and notification failures included.
C6_ExactlyOneResponse ==
    \A p \in Procs :
        Http(p) =>
            /\ ~Done(p) => run[p].responses = <<>>
            /\ Done(p) =>
                  /\ Len(run[p].responses) = 1
                  /\ Status(p) \in {200, 500, 502}
                  /\ Status(p) = 502 <=> FetchFailed(p)
                  /\ Status(p) = 500 <=> (FetchSucceeded(p) /\ run[p].response.body = "null")
                  /\ Status(p) = 500 <=> Logged(p, "Unexpected Error")
                  /\ (FetchSucceeded(p) /\ ~Logged(p, "Unexpected Error")) => Status(p) = 200

C6_Witness ==
    \E p, q \in Procs :
        /\ Http(p) /\ Done(p) /\ Status(p) = 200
        /\ run[p].store = "threw" /\ Logged(p, "Slack Notification Error")
        /\ Http(q) /\ Done(q) /\ Status(q) = 502

C6_Witness500 ==
    \E p \in Procs : Http(p) /\ Done(p) /\ Status(p) = 500

\* C7: every 200 outcome of an HTTP run whose fetch succeeded carries the run
\* id, the total count and the unhealthy count.
C7_OutcomeCarriesRunId ==
    \A p \in Procs :
        (Http(p) /\ Done(p) /\ FetchSucceeded(p) /\ Status(p) = 200) =>
            {"run_id", "total_routes", "unhealthy_count"} \subseteq run[p].responses[1].keys

\* C8: a run whose fetch succeeded with a payload that holds no device list
\* (field absent, field not a list, body absent) ends with a total of 0 and
\* the healthy outcome, without an error.
C8_NonListPayloadIsEmpty ==
    \A p \in Procs :
        (Done(p) /\ FetchSucceeded(p) /\ run[p].response.field # "array") =>
            /\ run[p].errors = <<>>
            /\ run[p].total = 0
            /\ Http(p) => (Status(p) = 200 /\ run[p].responses[1].body.total_routes = 0)

\* ------------------------------------------- classifier properties
\* run p classified exactly one device: Route(p); Produced(p) are the issues
\* the run holds for it (none when the device was dropped as healthy)
ClassifiedOne(p) == FetchSucceeded(p) /\ Len(run[p].routes) = 1
Route(p) == run[p].routes[1]
Produced(p) == IF run[p].unhealthy = <<>> THEN <<>> ELSE run[p].unhealthy[1].issues
CriticalText == "Critical battery level"
LowText == "Battery low and not charging"
BatteryProduced(p) ==
    SelectSeq(Produced(p), LAMBDA issue : issue.text \in {CriticalText, LowText})
IsNumberAtLeast(x, k) == x.t = "number" /\ x.v >= k
IsNumberBelow(x, k) == x.t = "number" /\ x.v < k

\* C9 as stated: battery >= 30, or battery < 30 with a charging flag other
\* than false, gives no battery issue.
C9_NoBatteryIssueAsStated ==
    \A p \in Procs :
        (/\ ClassifiedOne(p)
         /\ \/ IsNumberAtLeast(Route(p).battery, 30)
            \/ IsNumberBelow(Route(p).battery, 30) /\ Route(p).charging # "false")
        => BatteryProduced(p) = <<>>

\* C9 amended: battery >= 30, or 20 <= battery < 30 with a charging flag
\* other than the boolean false, gives no battery issue.
C9_NoBatteryIssue ==
    \A p \in Procs :
        (/\ ClassifiedOne(p)
         /\ \/ IsNumberAtLeast(Route(p).battery, 30)
            \/ /\ IsNumberAtLeast(Route(p).battery, 20)
               /\ IsNumberBelow(Route(p).battery, 30)
               /\ Route(p).charging # "false")
        => BatteryProduced(p) = <<>>

\* a stale device at 29% with no charging flag: unhealthy, no battery issue
C9_Witness ==
    \E p \in Procs :
        /\ ClassifiedOne(p) /\ Done(p)
        /\ Route(p).battery = Num(29) /\ Route(p).charging = "undefined"
        /\ Len(Produced(p)) = 1 /\ Produced(p)[1].text = "Last active"

\* C10: the battery rule gives at most one issue per device: the critical one
\* exactly when battery is a number below 20, whatever the charging flag; the
\* low one exactly when battery is a number in [20, 30) and charging is the
\* boolean false; none when battery is not a number.
C10_BatteryRule ==
    \A p \in Procs :
        ClassifiedOne(p) =>
            LET b == Route(p).battery
                critical == \E i \in 1..Len(Produced(p)) : Produced(p)[i].text = CriticalText
                low == \E i \in 1..Len(Produced(p)) : Produced(p)[i].text = LowText
            IN /\ Len(BatteryProduced(p)) <= 1
               /\ critical <=> IsNumberBelow(b, 20)
               /\ low <=> (/\ IsNumberAtLeast(b, 20) /\ IsNumberBelow(b, 30)
                           /\ Route(p).charging = "false")
               /\ ~(critical /\ low)
               /\ b.t \notin {"number", "nan"} => BatteryProduced(p) = <<>>
               /\ \A i \in 1..Len(BatteryProduced(p)) : BatteryProduced(p)[i].arg = b.v

C10_Witness ==
    \E p \in Procs :
        /\ ClassifiedOne(p) /\ Done(p)
        /\ Route(p).battery = Num(19) /\ Route(p).charging = "false"
        /\ BatteryProduced(p) = <<[text |-> CriticalText, arg |-> 19]>>

NeverText == "Never reported active"
StaleText == "Last active"
StalenessProduced(p) ==
    SelectSeq(Produced(p), LAMBDA issue : issue.text \in {NeverText, StaleText})

\* C11: the staleness rule gives exactly one of: "Never reported active" when
\* the last-active timestamp is absent (undefined, null) or zero; "Last
\* active .. minutes ago" when it is present (a number, or a string that
\* reads as one) and now - lastActive*1000 is more than 60000 ms; nothing
\* otherwise (the timestamp equals now, is
\* exactly 60 seconds old, or lies in the future). Never both.
C11_StalenessRule ==
    \A p \in Procs :
        ClassifiedOne(p) =>
            LET t == Route(p).last_active_time
                absent == t.t \in {"undefined", "null"} \/ (t.t = "number" /\ t.v = 0)
                present == t.t = "numstring" \/ (t.t = "number" /\ t.v # 0)
                old == present /\ run[p].now - t.v * 1000 > 60000
                never == \E i \in 1..Len(Produced(p)) : Produced(p)[i].text = NeverText
                stale == \E i \in 1..Len(Produced(p)) : Produced(p)[i].text = StaleText
            IN /\ Len(StalenessProduced(p)) <= 1
               /\ never <=> absent
               /\ stale <=> old
               /\ ~(never /\ stale)
               /\ (t.t = "number" /\ t.v * 1000 = run[p].now) => StalenessProduced(p) = <<>>
               /\ (t.t = "number" /\ run[p].now - t.v * 1000 = 60000) => StalenessProduced(p) = <<>>
               /\ (t.t = "number" /\ t.v * 1000 > run[p].now) => StalenessProduced(p) = <<>>

\* a device last active exactly 60 s ago is not stale; one millisecond later
\* another run would flag it; here: 2 minutes old gives "2.0 minutes ago"
C11_Witness ==
    \E p \in Procs :
        /\ ClassifiedOne(p) /\ Done(p)
        /\ Route(p).last_active_time = Num(880) /\ run[p].now = Now0
        /\ StalenessProduced(p) = <<[text |-> StaleText, arg |-> 20]>>

C11_WitnessBoundary ==
    \E p \in Procs :
        /\ ClassifiedOne(p) /\ Done(p)
        /\ Route(p).last_active_time = Num(940)
        /\ run[p].now = Now0 /\ Produced(p) = <<>>

\* -------------------------------------------- pipeline properties
\* C12: the Persister called with an empty sequence has returned without
\* asking for a connection and without an insert; and a run whose
\* classification found no unhealthy record ends without a Persister call,
\* a Notifier call or a message, with the healthy outcome.
C12_NothingForEmptyBatch ==
    \A p \in Procs :
        /\ (run[p].kind = "store" /\ run[p].unhealthy = <<>>) =>
              /\ Done(p) /\ run[p].store = "returned"
              /\ run[p].connects = 0 /\ run[p].acquired = 0 /\ run[p].client = 0
              /\ run[p].attempts = <<>>
              /\ RowsOf(run[p].runId) = <<>>
        /\ (run[p].kind \in {"http", "direct"} /\ FetchSucceeded(p)
            /\ run[p].unhealthy = <<>>) =>
              /\ Done(p) /\ run[p].store = "none"
              /\ run[p].connects = 0 /\ run[p].attempts = <<>>
              /\ run[p].notified = <<>> /\ run[p].sends = <<>>
              /\ (Http(p) /\ run[p].response.body # "null") =>
                    /\ Status(p) = 200
                    /\ run[p].responses[1].body.unhealthy_count = 0
                    /\ "unhealthy_routes" \notin run[p].responses[1].keys

C12_Witness ==
    \E p, q \in Procs :
        /\ run[p].kind = "store" /\ run[p].unhealthy = <<>> /\ Done(p)
        /\ Http(q) /\ Done(q) /\ FetchSucceeded(q)
        /\ run[q].total >= 1 /\ run[q].unhealthy = <<>>

\* C13: under the HTTP trigger a fetched device is classified only if its
\* management flag is the boolean true; a device whose flag is false,
\* absent or not a boolean is not counted, not listed as unhealthy, not
\* inserted and not in any message, whatever its battery and last-active
\* values.
C13_OnlyManagedRoutes ==
    \A p \in Procs :
      /\ (Http(p) /\ FetchSucceeded(p)) =>
            /\ run[p].total =
                  Cardinality({i \in 1..Len(run[p].response.data) : run[p].response.data[i].managed = "true"})
            /\ \A i \in 1..Len(run[p].routes) : run[p].routes[i].managed = "true"
      /\ (Http(p) /\ FetchSucceeded(p) /\ Len(run[p].response.data) = 1) =>
            IF run[p].response.data[1].managed = "true"
            THEN run[p].total = 1 /\ run[p].routes = run[p].response.data
            ELSE /\ Done(p)
                 /\ run[p].total = 0 /\ run[p].routes = <<>> /\ run[p].unhealthy = <<>>
                 /\ run[p].connects = 0 /\ run[p].attempts = <<>>
                 /\ RowsOf(run[p].runId) = <<>>
                 /\ run[p].notified = <<>> /\ run[p].sends = <<>>
                 /\ Status(p) = 200
                 /\ run[p].responses[1].body.total_routes = 0
                 /\ run[p].responses[1].body.unhealthy_count = 0

\* a device at 0% that never reported, but carrying the text "true" as its
\* flag, is left out
C13_Witness ==
    \E p \in Procs :
        /\ Http(p) /\ Done(p) /\ FetchSucceeded(p)
        /\ run[p].response.data[1].managed = "string"
        /\ run[p].response.data[1].battery = Num(0)
        /\ run[p].response.data[1].last_active_time = Undefined
        /\ run[p].total = 0 /\ Status(p) = 200

\* C14: with no Slack channel configured, an HTTP run that found unhealthy
\* records calls the Notifier after the persist stage has ended; the
\* Notifier sends nothing and raises nothing, and the run, when it has
\* terminated, has answered with its normal 200.
C14_UnconfiguredNotifierIsSilent ==
    \A p \in Procs :
        (Http(p) /\ ~env.slackChannel) =>
            /\ run[p].pc # "posting"
            /\ run[p].sends = <<>> /\ run[p].delivered = 0
            /\ ~Logged(p, "Slack Notification Error")
            /\ ~Logged(p, "sendSlackAlert failed")
            /\ run[p].notified # <<>> =>
                  /\ StoreEnded(p)
                  /\ run[p].pc \in {"notified", "done"}
                  /\ run[p].notified = <<run[p].unhealthy>>
            /\ (FetchSucceeded(p) /\ HasUnhealthy(p) /\ Done(p)) =>
                  /\ StoreEnded(p)
                  /\ run[p].notified = <<run[p].unhealthy>>
                  /\ run[p].connects = 1
                  /\ Status(p) = 200
                  /\ run[p].responses[1].body.unhealthy_routes = run[p].unhealthy
                  /\ run[p].responses[1].body.run_id = run[p].runId

C14_Witness ==
    \E p \in Procs :
        /\ Http(p) /\ ~env.slackChannel /\ Done(p)
        /\ Len(run[p].unhealthy) >= 2 /\ run[p].store = "returned"
        /\ Len(RowsOf(run[p].runId)) = Len(run[p].unhealthy)
        /\ run[p].notified # <<>> /\ Status(p) = 200

\* C15: a run posts at most one message; a Notifier call with a configured
\* channel makes exactly one send attempt, and that message names the run
\* and has one line for each unhealthy record, in the order of the list.
C15_OneMessageOneLinePerRecord ==
    \A p \in Procs :
        /\ Len(run[p].sends) <= 1
        /\ run[p].delivered <= Len(run[p].sends)
        /\ (Http(p) /\ env.slackChannel /\ run[p].notified # <<>>) =>
              /\ Len(run[p].sends) = 1
              /\ run[p].sends[1].run_id = run[p].runId
              /\ Len(run[p].sends[1].lines) = Len(run[p].unhealthy)
              /\ \A i \in 1..Len(run[p].unhealthy) :
                    LET line == run[p].sends[1].lines[i]
                        u == run[p].unhealthy[i]
                    IN /\ line.issues = u.issues
                       /\ line.label = (IF u.name \in {"undefined", "null", ""}
                                        THEN u.id ELSE u.name)
                       /\ line.phone = (IF u.phone_number \in {"undefined", "null", ""}
                                        THEN "unknown" ELSE u.phone_number)

C15_Witness ==
    \E p \in Procs :
        /\ Http(p) /\ Done(p) /\ run[p].delivered = 1
        /\ Len(run[p].unhealthy) = 3
        /\ run[p].unhealthy[1].phone_number # run[p].unhealthy[2].phone_number
        /\ Len(run[p].sends[1].lines) = 3

\* C16: the line of an unhealthy record carries a mention exactly when the
\* owner table has an entry for the record's display name, and the mention
\* is that entry's target; an unlisted, null or undefined name gives a line
\* without a mention.
C16_MentionIffOwnerEntry ==
    \A p \in Procs :
        (Http(p) /\ run[p].sends # <<>>) =>
            \A i \in 1..Len(run[p].unhealthy) :
                LET line == run[p].sends[1].lines[i]
                    name == run[p].unhealthy[i].name
                IN /\ line.mention # "" <=> name \in DOMAIN RouteOwners
                   /\ name \in DOMAIN RouteOwners => line.mention = RouteOwners[name]

IdAbsent(u) == u.id \in {"undefined", "null"}
\* the (run, position) pairs of the INSERTs attempted for records without id
PlaceholderAttempts ==
    {pi \in Procs \X (1..MaxRoutes) :
        /\ pi[2] <= Len(run[pi[1]].attempts)
        /\ IdAbsent(run[pi[1]].unhealthy[pi[2]])}

\* C17: every row the Persister tries to insert has a route id: the record's
\* identifier unchanged when it has one, else the prefix "unknown-" with a
\* fresh token; no two rows built for records without identifier, of one
\* run or of two, have the same route id.
C17_RouteIdNeverNull ==
    /\ \A p \in Procs : \A i \in 1..Len(run[p].attempts) :
          LET id == run[p].attempts[i].route_id
              u == run[p].unhealthy[i]
          IN /\ id.text \notin {"undefined", "null"}
             /\ IF IdAbsent(u) THEN id.text = "unknown-" /\ id.uuid >= 1
                ELSE id.text = u.id /\ id.uuid = 0
    /\ \A i \in 1..Len(dbLog) : dbLog[i].route_id.text \notin {"undefined", "null"}
    /\ \A a, b \in PlaceholderAttempts :
          a # b => run[a[1]].attempts[a[2]].route_id # run[b[1]].attempts[b[2]].route_id

\* two overlapping runs, one over a record whose id is undefined, the other
\* over a record whose id is null, both rows in the log
C17_Witness ==
    \E p, q \in Procs :
        /\ p # q
        /\ <<p, 1>> \in PlaceholderAttempts /\ <<q, 1>> \in PlaceholderAttempts
        /\ run[p].unhealthy[1].id = "undefined" /\ run[q].unhealthy[1].id = "null"
        /\ Len(dbLog) = 2

\* one run with two records without identifier, both rows in the log
C17_WitnessSameRun ==
    \E p \in Procs :
        /\ <<p, 1>> \in PlaceholderAttempts /\ <<p, 2>> \in PlaceholderAttempts
        /\ Len(RowsOf(run[p].runId)) >= 2

\* a device has at least one issue, stated from the rules
HasIssueAt(r, now) ==
    \/ r.last_active_time.t \in {"undefined", "null"}
    \/ r.last_active_time.t = "number" /\ r.last_active_time.v = 0
    \/ r.last_active_time.t = "number" /\ now - r.last_active_time.v * 1000 > 60000
    \/ r.battery.t = "number" /\ r.battery.v < 20
    \/ r.battery.t = "number" /\ r.battery.v < 30 /\ r.charging = "false"
\* the considered records of run p that have an issue, in input order
ExpectedUnhealthy(p) == SelectSeq(run[p].routes, LAMBDA r : HasIssueAt(r, run[p].now))
SameDevice(u, r) ==
    /\ u.id = r.id /\ u.name = r.name /\ u.phone_number = r.phone_number
    /\ u.country = r.country /\ u.app_version = r.app_version
    /\ u.battery = r.battery /\ u.charging = r.charging
    /\ u.last_active_time = r.last_active_time
StalenessFirst(issues) ==
    \A j, k \in 1..Len(issues) :
        (j < k) => ~(/\ issues[j].text \in {CriticalText, LowText}
                     /\ issues[k].text \in {NeverText, StaleText})

\* C18: the unhealthy list of a run is the considered records that have at
\* least one issue, in input order, each with a non-empty issue sequence
\* whose staleness issue comes before its battery issue; that same list goes
\* to the Persister, to the Notifier and into the outcome, whose unhealthy
\* count is its length and is at most the total count.
C18_UnhealthyIsTheSubsequence ==
    \A p \in Procs :
        (FetchSucceeded(p) /\ run[p].response.body # "null") =>
            /\ run[p].total = Len(run[p].routes)
            /\ Len(run[p].unhealthy) = Len(ExpectedUnhealthy(p))
            /\ Len(run[p].unhealthy) <= run[p].total
            /\ \A i \in 1..Len(run[p].unhealthy) :
                  /\ SameDevice(run[p].unhealthy[i], ExpectedUnhealthy(p)[i])
                  /\ Len(run[p].unhealthy[i].issues) \in {1, 2}
                  /\ StalenessFirst(run[p].unhealthy[i].issues)
            /\ \A i \in 1..Len(run[p].attempts) :
                  /\ run[p].attempts[i].issues = [json |-> run[p].unhealthy[i].issues]
                  /\ run[p].attempts[i].battery.v = run[p].unhealthy[i].battery.v
            /\ \A i \in 1..Len(run[p].notified) : run[p].notified[i] = run[p].unhealthy
            /\ \A i \in 1..Len(run[p].sends) :
                  Len(run[p].sends[i].lines) = Len(run[p].unhealthy)
            /\ (Http(p) /\ Done(p)) =>
                  /\ run[p].responses[1].body.total_routes = Len(run[p].routes)
                  /\ run[p].responses[1].body.unhealthy_count = Len(run[p].unhealthy)
                  /\ run[p].responses[1].body.unhealthy_routes = run[p].unhealthy
                  /\ run[p].responses[1].body.unhealthy_count
                        <= run[p].responses[1].body.total_routes

\* a healthy device between two unhealthy ones, the second with a staleness
\* issue followed by a battery issue
C18_Witness ==
    \E p \in Procs :
        /\ Http(p) /\ Done(p) /\ Len(run[p].routes) = 3 /\ Len(run[p].unhealthy) = 2
        /\ ~HasIssueAt(run[p].routes[2], run[p].now)
        /\ Len(run[p].unhealthy[2].issues) = 2
        /\ Len(run[p].attempts) = 2 /\ run[p].notified # <<>>

\* C19: however the invocations interleave, each has its own run id and holds
\* its own client; every row of the log was inserted by the invocation
\* whose run id it carries, all rows an invocation builds carry its run id,
\* and no two invocations have the same run id or hold the same client.
C19_InvocationsAreIndependent ==
    /\ \A p \in Procs : Http(p) =>
          /\ run[p].runId >= 1
          /\ run[p].connects <= 1 /\ run[p].acquired <= 1
          /\ \A i \in 1..Len(run[p].attempts) : run[p].attempts[i].run_id = run[p].runId
          /\ RowsOf(run[p].runId) = Accepted(run[p].attempts, run[p].outcomes)
    /\ \A p, q \in Procs : (p # q /\ Http(p) /\ Http(q)) =>
          /\ run[p].runId # run[q].runId
          /\ run[p].client # 0 => run[p].client # run[q].client
    /\ \A i \in 1..Len(dbLog) :
          \E p \in Procs :
              /\ Http(p) /\ dbLog[i].run_id = run[p].runId
              /\ \E j \in 1..Len(run[p].outcomes) :
                    run[p].outcomes[j] /\ run[p].attempts[j] = dbLog[i]

\* two invocations that got different answers at different times; the later
\* one has inserted its row and released its client while the earlier one
\* still waits for its INSERT
C19_Witness ==
    \E p, q \in Procs :
        /\ p < q /\ Http(p) /\ Http(q)
        /\ run[p].response # run[q].response /\ run[p].now < run[q].now
        /\ run[p].pc = "inserting" /\ run[p].client # 0
        /\ run[q].pc = "stored" /\ run[q].client = 0
        /\ Len(dbLog) = 1 /\ dbLog[1].run_id = run[q].runId

\* the position of a stage in the order fetch, persist (connect, insert,
\* returned), notify (posting, returned), done; filtering and classification
\* run inside the step that ends the fetch
StageRank(pc) ==
    CASE pc = "idle" -> 0
      [] pc = "fetching" -> 1
      [] pc = "connecting" -> 2
      [] pc = "inserting" -> 3
      [] pc = "stored" -> 4
      [] pc = "posting" -> 5
      [] pc = "notified" -> 6
      [] pc = "done" -> 7
\* the Notifier of run p has been called
NotifyStarted(p) == run[p].notified # <<>>
\* when the Notifier of an HTTP run has been called, its Persister call has
\* ended: every record of the batch was attempted (or the connection was
\* refused) and no client is held
PersistedBeforeNotify(p) ==
    (Http(p) /\ NotifyStarted(p)) =>
        /\ StoreEnded(p)
        /\ run[p].client = 0 /\ run[p].releases = run[p].acquired
        /\ run[p].store = "returned" =>
              /\ Len(run[p].attempts) = Len(run[p].unhealthy)
              /\ Len(run[p].outcomes) = Len(run[p].unhealthy)

\* C20: every step of a run moves it forward in the order fetch, persist,
\* notify, done, never back; the Notifier is called only after the
\* Persister has attempted every insert and released its client; and once
\* the Notifier is called the run asks for no connection and attempts no insert.
C20_StagesInOrder ==
    [][\A p \in Procs :
          /\ StageRank(run'[p].pc) >= StageRank(run[p].pc)
          /\ run'[p].pc = run[p].pc => run'[p] = run[p]
                \/ (run[p].pc = "inserting" /\ run'[p].idx = run[p].idx + 1)
          /\ PersistedBeforeNotify(p)'
          /\ NotifyStarted(p) =>
                /\ run'[p].connects = run[p].connects
                /\ run'[p].acquired = run[p].acquired
                /\ run'[p].attempts = run[p].attempts
                /\ run'[p].outcomes = run[p].outcomes
                /\ RowsOf(run[p].runId)' = RowsOf(run[p].runId)]_vars

C20_Witness ==
    \E p \in Procs :
        /\ Http(p) /\ run[p].pc = "posting" /\ run[p].store = "returned"
        /\ Len(run[p].attempts) = 3 /\ run[p].client = 0
        /\ Logged(p, "DB Insert Error (single route)")

====
